---------------------------- MODULE Spec2Model ----------------------------
(***************************************************************************)
(* A model of XMLUtils (src/src/xml_utils.py): the map codec               *)
(* (xml_to_dict / dict_to_xml), merge_xml_elements, get_element_path,      *)
(* find_elements_by_content and compare_xml_elements, over lxml element    *)
(* trees.                                                                  *)
(*                                                                         *)
(* Strings are sequences of one-character strings, so that strip(), str()  *)
(* and the f-string formatting of a path are computed, not assumed.        *)
(* An optional value (element.text) is None == <<>> or <<s>>.              *)
(* Element trees live in a heap `doc`: node id -> [tag, attrib, text,      *)
(* tail, children, parent]; attrib is the ordered sequence of <<key,       *)
(* value>> pairs lxml keeps, tail the text that follows the element's end  *)
(* tag.  Functions that only read tag/attrib/text/children are defined on  *)
(* the value view Tree(h, n) of a node.  `stack` holds the frames of a     *)
(* call that is run statement by statement.                                *)
(***************************************************************************)
EXTENDS Integers, Sequences, FiniteSets, TLC

VARIABLES doc, base, update, elem, query, op, ret, pre, stack

vars == <<doc, base, update, elem, query, op, ret, pre, stack>>

-----------------------------------------------------------------------------
(* Python values *)

None == <<>>

Some(s) == <<s>>

NoNode == 0

Whitespace == {" ", "\t", "\n", "\r"}

RECURSIVE lstrip(_)
lstrip(s) ==
    IF s # <<>> /\ Head(s) \in Whitespace THEN lstrip(Tail(s)) ELSE s

RECURSIVE rstrip(_)
rstrip(s) ==
    IF s # <<>> /\ s[Len(s)] \in Whitespace
    THEN rstrip(SubSeq(s, 1, Len(s) - 1))
    ELSE s

\* mutant: only the leading whitespace is removed
strip_LeftOnly(s) == lstrip(s)

\* str.strip()
strip(s) == rstrip(lstrip(s))

\* mutant: the text test without the strip(), so blank text counts
HasText_NoStrip(t) == t # None /\ t[1] # <<>>

\* `element.text and element.text.strip()` as a truth value
HasText(t) == t # None /\ strip(t[1]) # <<>>

\* mutant: every text counts as empty
TextOrEmpty_Ignored(t) == <<>>

\* `(elem.text or "").strip()`
TextOrEmpty(t) == IF t = None \/ t[1] = <<>> THEN <<>> ELSE strip(t[1])

PyNone == [kind |-> "None", val |-> <<>>]

PyStr(s) == [kind |-> "str", val |-> s]

\* a dict is the ordered sequence of its <<key, value>> items
PyDict(items) == [kind |-> "dict", val |-> items]

PyList(xs) == [kind |-> "list", val |-> xs]

AttributesKey == <<"@", "a", "t", "t", "r", "i", "b", "u", "t", "e", "s">>

TextKey == <<"#", "t", "e", "x", "t">>

\* str(value) for the values the codec passes to it
str(v) ==
    CASE v.kind = "None" -> <<"N", "o", "n", "e">>
      [] v.kind = "str" -> v.val

Keys(items) == {items[i][1] : i \in 1..Len(items)}

\* d[key] of a dict given as its items (key is present)
Lookup(items, key) ==
    items[CHOOSE i \in 1..Len(items) : items[i][1] = key][2]

\* d[key] = value: in place when the key is present, else at the end
SetItem(items, key, value) ==
    IF key \in Keys(items)
    THEN [i \in 1..Len(items) |->
            IF items[i][1] = key THEN <<key, value>> ELSE items[i]]
    ELSE Append(items, <<key, value>>)

RECURSIVE DictUpdate(_, _)
\* mutant: update() as setdefault(), a key already present keeps its value
DictUpdate_KeepExisting(items, other) ==
    IF other = <<>> THEN items
    ELSE DictUpdate(IF Head(other)[1] \in Keys(items) THEN items
                    ELSE SetItem(items, Head(other)[1], Head(other)[2]),
                    Tail(other))

\* d.update(other)
DictUpdate(items, other) ==
    IF other = <<>> THEN items
    ELSE DictUpdate(SetItem(items, Head(other)[1], Head(other)[2]),
                    Tail(other))

-----------------------------------------------------------------------------
(* Elements *)

Element(tag, attrib, text, children) ==
    [tag |-> tag, attrib |-> attrib, text |-> text, children |-> children]

RECURSIVE Tree(_, _)
\* the text runs that follow the children in cs
RECURSIVE Tails(_, _)
Tails(h, cs) ==
    IF cs = <<>> THEN <<>>
    ELSE (IF h[Head(cs)].tail = None THEN <<>> ELSE h[Head(cs)].tail[1])
            \o Tails(h, Tail(cs))

\* mutant: the text of an element is all of its text runs, the tails of its
\* children included
Tree_TailsInText(h, n) ==
    Element(h[n].tag, h[n].attrib,
            IF Tails(h, h[n].children) = <<>> THEN h[n].text
            ELSE Some((IF h[n].text = None THEN <<>> ELSE h[n].text[1])
                         \o Tails(h, h[n].children)),
            [i \in 1..Len(h[n].children) |-> Tree(h, h[n].children[i])])

\* the element tree rooted at node n of heap h, as a value: what
\* element.tag, element.attrib, element.text and iterating the element give
Tree(h, n) ==
    Element(h[n].tag, h[n].attrib, h[n].text,
            [i \in 1..Len(h[n].children) |-> Tree(h, h[n].children[i])])

\* mutant: a later child of a tag replaces the earlier one
AddChild_KeepsLast(children, tag, child_data) ==
    SetItem(children, tag, child_data)

\* the children dict of xml_to_dict after one more child
AddChild(children, tag, child_data) ==
    IF tag \in Keys(children)
    THEN LET old == Lookup(children, tag)
             lst == IF old.kind # "list" THEN <<old>> ELSE old.val
         IN  SetItem(children, tag, PyList(Append(lst, child_data)))
    ELSE SetItem(children, tag, child_data)

RECURSIVE xml_to_dict(_)
RECURSIVE ChildrenDict(_, _)
ChildrenDict(cs, acc) ==
    IF cs = <<>> THEN acc
    ELSE ChildrenDict(Tail(cs),
                      AddChild(acc, Head(cs).tag, xml_to_dict(Head(cs))))

\* mutant: an element without text and children is the empty marker, its
\* attributes are dropped
xml_to_dict_AttributesDropped(element) ==
    LET withAttrs ==
            IF element.attrib # <<>>
            THEN <<<<AttributesKey,
                     PyDict([i \in 1..Len(element.attrib) |->
                              <<element.attrib[i][1],
                                PyStr(element.attrib[i][2])>>])>>>>
            ELSE <<>>
        stripped == strip(element.text[1])
        withText ==
            IF HasText(element.text)
            THEN SetItem(withAttrs, TextKey, PyStr(stripped))
            ELSE withAttrs
        children == ChildrenDict(element.children, <<>>)
        result == IF children # <<>> THEN DictUpdate(withText, children)
                  ELSE withText
    IN  IF HasText(element.text) /\ Len(element.children) = 0
           /\ element.attrib = <<>>
        THEN PyStr(stripped)
        ELSE IF children = <<>> /\ ~HasText(element.text)
             THEN PyNone
             ELSE PyDict(result)

\* mutant: an element with nothing in it is the empty dict, not None
xml_to_dict_EmptyDict(element) ==
    LET withAttrs ==
            IF element.attrib # <<>>
            THEN <<<<AttributesKey,
                     PyDict([i \in 1..Len(element.attrib) |->
                              <<element.attrib[i][1],
                                PyStr(element.attrib[i][2])>>])>>>>
            ELSE <<>>
        stripped == strip(element.text[1])
        withText ==
            IF HasText(element.text)
            THEN SetItem(withAttrs, TextKey, PyStr(stripped))
            ELSE withAttrs
        children == ChildrenDict(element.children, <<>>)
        result == IF children # <<>> THEN DictUpdate(withText, children)
                  ELSE withText
    IN  IF HasText(element.text) /\ Len(element.children) = 0
           /\ element.attrib = <<>>
        THEN PyStr(stripped)
        ELSE IF children = <<>> /\ ~HasText(element.text)
             THEN PyDict(result)
             ELSE PyDict(result)

xml_to_dict(element) ==
    LET withAttrs ==
            IF element.attrib # <<>>
            THEN <<<<AttributesKey,
                     PyDict([i \in 1..Len(element.attrib) |->
                              <<element.attrib[i][1],
                                PyStr(element.attrib[i][2])>>])>>>>
            ELSE <<>>
        stripped == strip(element.text[1])
        withText ==
            IF HasText(element.text)
            THEN SetItem(withAttrs, TextKey, PyStr(stripped))
            ELSE withAttrs
        children == ChildrenDict(element.children, <<>>)
        result == IF children # <<>> THEN DictUpdate(withText, children)
                  ELSE withText
    IN  IF HasText(element.text) /\ Len(element.children) = 0
           /\ element.attrib = <<>>
        THEN PyStr(stripped)
        ELSE IF children = <<>> /\ ~HasText(element.text)
             THEN IF element.attrib # <<>> THEN PyDict(result) ELSE PyNone
             ELSE PyDict(result)

\* elem.set(key, value) over the ordered attributes
SetAttr(attrib, key, value) == SetItem(attrib, key, value)

RECURSIVE build_element(_, _)
RECURSIVE BuildChildren(_, _)
\* mutant: only "@attributes" is skipped, "#text" yields a child as well
BuildChildren_TextAsChild(items, acc) ==
    IF items = <<>> THEN acc
    ELSE LET key == Head(items)[1]
             val == Head(items)[2]
             new == IF key = AttributesKey THEN <<>>
                    ELSE IF val.kind = "list"
                         THEN [i \in 1..Len(val.val) |->
                                 build_element(key, val.val[i])]
                         ELSE <<build_element(key, val)>>
         IN  BuildChildren(Tail(items), acc \o new)

BuildChildren(items, acc) ==
    IF items = <<>> THEN acc
    ELSE LET key == Head(items)[1]
             val == Head(items)[2]
             new == IF key \in {AttributesKey, TextKey} THEN <<>>
                    ELSE IF val.kind = "list"
                         THEN [i \in 1..Len(val.val) |->
                                 build_element(key, val.val[i])]
                         ELSE <<build_element(key, val)>>
         IN  BuildChildren(Tail(items), acc \o new)

RECURSIVE SetAttrs(_, _)
SetAttrs(items, acc) ==
    IF items = <<>> THEN acc
    ELSE SetAttrs(Tail(items),
                  SetAttr(acc, Head(items)[1], str(Head(items)[2])))

build_element(tag, value) ==
    IF value.kind = "dict"
    THEN Element(tag,
                 IF AttributesKey \in Keys(value.val)
                 THEN SetAttrs(Lookup(value.val, AttributesKey).val, <<>>)
                 ELSE <<>>,
                 IF TextKey \in Keys(value.val)
                 THEN Some(str(Lookup(value.val, TextKey)))
                 ELSE None,
                 BuildChildren(value.val, <<>>))
    ELSE IF value.kind = "list"
         THEN Element(tag, <<>>, None, <<>>)
         ELSE Element(tag, <<>>, Some(str(value)), <<>>)

dict_to_xml(data, root_tag) == build_element(root_tag, data)

\* mutant: attributes compared as the ordered lists of their items
AsDict_Ordered(attrib) == attrib

\* _Attrib comparison: both sides as dicts, so as sets of items
AsDict(attrib) == {attrib[i] : i \in 1..Len(attrib)}

RECURSIVE compare_xml_elements(_, _)
\* mutant: the attributes of elem1 only have to be among those of elem2
compare_xml_elements_AttribSubset(elem1, elem2) ==
    IF elem1.tag # elem2.tag THEN FALSE
    ELSE IF TextOrEmpty(elem1.text) # TextOrEmpty(elem2.text) THEN FALSE
    ELSE IF ~(AsDict(elem1.attrib) \subseteq AsDict(elem2.attrib)) THEN FALSE
    ELSE IF Len(elem1.children) # Len(elem2.children) THEN FALSE
    ELSE \A i \in 1..Len(elem1.children) :
            compare_xml_elements(elem1.children[i], elem2.children[i])

\* mutant: an empty text matches any text
compare_xml_elements_EmptyTextMatchesAny(elem1, elem2) ==
    IF elem1.tag # elem2.tag THEN FALSE
    ELSE IF /\ TextOrEmpty(elem1.text) # TextOrEmpty(elem2.text)
            /\ TextOrEmpty(elem1.text) # <<>>
            /\ TextOrEmpty(elem2.text) # <<>> THEN FALSE
    ELSE IF AsDict(elem1.attrib) # AsDict(elem2.attrib) THEN FALSE
    ELSE IF Len(elem1.children) # Len(elem2.children) THEN FALSE
    ELSE \A i \in 1..Len(elem1.children) :
            compare_xml_elements(elem1.children[i], elem2.children[i])

compare_xml_elements(elem1, elem2) ==
    IF elem1.tag # elem2.tag THEN FALSE
    ELSE IF TextOrEmpty(elem1.text) # TextOrEmpty(elem2.text) THEN FALSE
    ELSE IF AsDict(elem1.attrib) # AsDict(elem2.attrib) THEN FALSE
    ELSE IF Len(elem1.children) # Len(elem2.children) THEN FALSE
    ELSE \A i \in 1..Len(elem1.children) :
            compare_xml_elements(elem1.children[i], elem2.children[i])

-----------------------------------------------------------------------------
(* The element heap: merge_xml_elements and get_element_path *)

Remove(seq, x) == SelectSeq(seq, LAMBDA y : y # x)

\* mutant: the child is linked first instead of last
AppendChild_Front(h, p, c) ==
    LET old == h[c].parent
        h1 == IF old # NoNode
              THEN [h EXCEPT ![old].children = Remove(@, c)]
              ELSE h
    IN  [h1 EXCEPT ![p].children = <<c>> \o @, ![c].parent = p]

\* mutant: the child is linked under the new parent and stays in the
\* children of the old one
AppendChild_Aliased(h, p, c) ==
    [h EXCEPT ![p].children = Append(@, c), ![c].parent = p]

\* parent.append(child): lxml unlinks the child from the parent it has, then
\* links it as the last child of the new parent
AppendChild(h, p, c) ==
    LET old == h[c].parent
        h1 == IF old # NoNode
              THEN [h EXCEPT ![old].children = Remove(@, c)]
              ELSE h
    IN  [h1 EXCEPT ![p].children = Append(@, c), ![c].parent = p]

\* mutant: the first child of a tag is kept instead of the last
BaseChildren_FirstWins(h, b) ==
    LET cs == h[b].children
    IN  [t \in {h[cs[i]].tag : i \in 1..Len(cs)} |->
            cs[CHOOSE i \in 1..Len(cs) :
                  /\ h[cs[i]].tag = t
                  /\ \A j \in 1..(i - 1) : h[cs[j]].tag # t]]

\* {child.tag: child for child in base}: a later child replaces an earlier
\* one under the same tag
BaseChildren(h, b) ==
    LET cs == h[b].children
    IN  [t \in {h[cs[i]].tag : i \in 1..Len(cs)} |->
            cs[CHOOSE i \in 1..Len(cs) :
                  /\ h[cs[i]].tag = t
                  /\ \A j \in (i + 1)..Len(cs) : h[cs[j]].tag # t]]

RECURSIVE merge_xml_elements(_, _, _)
RECURSIVE MergeChildren(_, _, _, _)
\* mutant: a tag is merged once; a later update child of the tag is appended
MergeChildren_OnlyFirstMerged(h, b, base_children, todo) ==
    IF todo = <<>> THEN h
    ELSE LET update_child == Head(todo)
             t == h[update_child].tag
             h1 == IF t \in DOMAIN base_children
                   THEN merge_xml_elements(h, base_children[t], update_child)
                   ELSE AppendChild(h, b, update_child)
         IN  MergeChildren(h1, b,
                           [x \in DOMAIN base_children \ {t} |->
                               base_children[x]],
                           Tail(todo))

\* mutant: the else is missing, a merged update child is appended as well
MergeChildren_NoElse(h, b, base_children, todo) ==
    IF todo = <<>> THEN h
    ELSE LET update_child == Head(todo)
             t == h[update_child].tag
             h1 == IF t \in DOMAIN base_children
                   THEN merge_xml_elements(h, base_children[t], update_child)
                   ELSE h
         IN  MergeChildren(AppendChild(h1, b, update_child), b,
                           base_children, Tail(todo))

\* `for update_child in update`: lxml's child iterator holds the next sibling
\* before the body runs, and the body unlinks only the current child, so the
\* loop visits update's children as they were on entry.
MergeChildren(h, b, base_children, todo) ==
    IF todo = <<>> THEN h
    ELSE LET update_child == Head(todo)
             t == h[update_child].tag
             h1 == IF t \in DOMAIN base_children
                   THEN merge_xml_elements(h, base_children[t], update_child)
                   ELSE AppendChild(h, b, update_child)
         IN  MergeChildren(h1, b, base_children, Tail(todo))

\* mutant: base takes the tag of update
merge_xml_elements_TakesTag(h, b, u) ==
    LET h1 == [h EXCEPT ![b].attrib = DictUpdate(@, h[u].attrib),
                        ![b].tag = h[u].tag]
        h2 == IF HasText(h[u].text)
              THEN [h1 EXCEPT ![b].text = h[u].text]
              ELSE h1
    IN  MergeChildren(h2, b, BaseChildren(h2, b), h2[u].children)

\* the heap after merge_xml_elements(b, u); the call returns b
merge_xml_elements(h, b, u) ==
    LET h1 == [h EXCEPT ![b].attrib = DictUpdate(@, h[u].attrib)]
        h2 == IF HasText(h[u].text)
              THEN [h1 EXCEPT ![b].text = h[u].text]
              ELSE h1
    IN  MergeChildren(h2, b, BaseChildren(h2, b), h2[u].children)

Digit(d) == <<"0", "1", "2", "3", "4", "5", "6", "7", "8", "9">>[d + 1]

\* str(n) of a natural number
RECURSIVE IntStr(_)
IntStr(n) ==
    IF n < 10 THEN <<Digit(n)>> ELSE IntStr(n \div 10) \o <<Digit(n % 10)>>

\* mutant: the index counts from zero
IndexOf_ZeroBased(seq, x) == (CHOOSE i \in 1..Len(seq) : seq[i] = x) - 1

\* siblings.index(current) + 1
IndexOf(seq, x) == CHOOSE i \in 1..Len(seq) : seq[i] = x

\* mutant: the sibling index is left out
PathPart_NoIndex(h, current) == h[current].tag

\* mutant: an element without a parent is indexed as well
PathPart_RootIndexed(h, current) ==
    LET parent == h[current].parent
    IN  IF parent # NoNode
        THEN LET siblings == SelectSeq(h[parent].children,
                                LAMBDA e : h[e].tag = h[current].tag)
             IN  IF Len(siblings) > 1
                 THEN h[current].tag \o <<"[">>
                        \o IntStr(IndexOf(siblings, current)) \o <<"]">>
                 ELSE h[current].tag
        ELSE h[current].tag \o <<"[", "1", "]">>

\* one entry of path_parts
PathPart(h, current) ==
    LET parent == h[current].parent
    IN  IF parent # NoNode
        THEN LET siblings == SelectSeq(h[parent].children,
                                LAMBDA e : h[e].tag = h[current].tag)
             IN  IF Len(siblings) > 1
                 THEN h[current].tag \o <<"[">>
                        \o IntStr(IndexOf(siblings, current)) \o <<"]">>
                 ELSE h[current].tag
        ELSE h[current].tag

\* path_parts after the while loop, already reversed
RECURSIVE PathParts(_, _)
PathParts(h, current) ==
    IF current = NoNode THEN <<>>
    ELSE Append(PathParts(h, h[current].parent), PathPart(h, current))

\* sep.join(parts)
RECURSIVE Join(_, _)
Join(sep, parts) ==
    IF parts = <<>> THEN <<>>
    ELSE IF Len(parts) = 1 THEN parts[1]
    ELSE parts[1] \o sep \o Join(sep, Tail(parts))

get_element_path(h, element) == <<"/">> \o Join(<<"/">>, PathParts(h, element))

-----------------------------------------------------------------------------
(* find_elements_by_content: the XPath query and the fallback loop *)

\* `if tag:` / `if text:` / `if attributes:` on an Optional argument, given
\* as None or Some(value)
Truthy(arg) == arg # None /\ arg[1] # <<>>

StartsWith(s, prefix) ==
    Len(s) >= Len(prefix) /\ SubSeq(s, 1, Len(prefix)) = prefix

Drop(s, n) == SubSeq(s, n + 1, Len(s))

\* `sub in s`
Contains(s, sub) ==
    \E i \in 0..(Len(s) - Len(sub)) : SubSeq(s, i + 1, i + Len(sub)) = sub

\* the opening of a text predicate
ContainsOpen ==
    <<"[", "c", "o", "n", "t", "a", "i", "n", "s", "(", "t", "e", "x", "t",
      "(", ")", ",", " ", "'">>

\* the predicates added for attributes.items()
RECURSIVE XPathAttributes(_, _)
XPathAttributes(xpath, items) ==
    IF items = <<>> THEN xpath
    ELSE XPathAttributes(xpath \o <<"[", "@">> \o Head(items)[1] \o <<"=", "'">>
                            \o Head(items)[2] \o <<"'", "]">>,
                         Tail(items))

\* the query string built from the arguments
BuildXPath(tag, text, attributes) ==
    LET byTag == IF Truthy(tag) THEN <<".", "/", "/">> \o tag[1] ELSE <<".", "/", "/", "*">>
        byText == IF Truthy(text)
                  THEN byTag \o ContainsOpen \o text[1] \o <<"'", ")", "]">>
                  ELSE byTag
    IN  IF Truthy(attributes) THEN XPathAttributes(byText, attributes[1])
        ELSE byText

\* the letters and digits of a name in a query
NameChars ==
    {"a", "b", "c", "d", "e", "f", "g", "h", "i", "j", "k", "l", "m", "n",
     "o", "p", "q", "r", "s", "t", "u", "v", "w", "x", "y", "z", "_",
     "0", "1", "2", "3", "4", "5", "6", "7", "8", "9"}

\* how many characters of s, from its start, belong to a name
RECURSIVE NameLen(_)
NameLen(s) ==
    IF s # <<>> /\ Head(s) \in NameChars THEN 1 + NameLen(Tail(s)) ELSE 0

\* the position of the first quote of s, 0 when it has none
QuoteAt(s) ==
    LET at == {i \in 1..Len(s) : s[i] = "'"}
    IN  IF at = {} THEN 0 ELSE CHOOSE i \in at : \A j \in at : i <= j

XPathSyntaxError == [ok |-> FALSE, test |-> <<>>, preds |-> <<>>]

\* the predicates of a query: [contains(text(), '...')] and [@name='...'];
\* a literal ends at the first quote after its opening one
RECURSIVE ParsePredicates(_, _, _)
ParsePredicates(s, test, acc) ==
    IF s = <<>> THEN [ok |-> TRUE, test |-> test, preds |-> acc]
    ELSE IF StartsWith(s, ContainsOpen)
    THEN LET lit == Drop(s, Len(ContainsOpen))
             q == QuoteAt(lit)
         IN  IF q > 0 /\ StartsWith(Drop(lit, q), <<")", "]">>)
             THEN ParsePredicates(Drop(lit, q + 2), test,
                     Append(acc, [kind |-> "text", key |-> <<>>,
                                  val |-> SubSeq(lit, 1, q - 1)]))
             ELSE XPathSyntaxError
    ELSE IF StartsWith(s, <<"[", "@">>)
    THEN LET name == Drop(s, 2)
             n == NameLen(name)
             lit == Drop(name, n + 2)
             q == QuoteAt(lit)
         IN  IF /\ n > 0
                /\ StartsWith(Drop(name, n), <<"=", "'">>)
                /\ q > 0
                /\ StartsWith(Drop(lit, q), <<"]">>)
             THEN ParsePredicates(Drop(lit, q + 1), test,
                     Append(acc, [kind |-> "attr", key |-> SubSeq(name, 1, n),
                                  val |-> SubSeq(lit, 1, q - 1)]))
             ELSE XPathSyntaxError
    ELSE XPathSyntaxError

\* the query strings this function builds, as the XPath engine reads them:
\* .// then * or a name, then predicates
ParseXPath(xpath) ==
    IF ~StartsWith(xpath, <<".", "/", "/">>) THEN XPathSyntaxError
    ELSE LET step == Drop(xpath, 3)
         IN  IF StartsWith(step, <<"*">>)
             THEN ParsePredicates(Drop(step, 1), <<"*">>, <<>>)
             ELSE IF NameLen(step) > 0
             THEN ParsePredicates(Drop(step, NameLen(step)),
                                  SubSeq(step, 1, NameLen(step)), <<>>)
             ELSE XPathSyntaxError

\* root.iter(): the element and its descendants, in document order
RECURSIVE Iter(_, _)
RECURSIVE IterAll(_, _)
IterAll(h, ns) ==
    IF ns = <<>> THEN <<>> ELSE Iter(h, Head(ns)) \o IterAll(h, Tail(ns))

Iter(h, n) == <<n>> \o IterAll(h, h[n].children)

\* element.get(key): the value as Some(value), or None
Get(attrib, key) ==
    IF \E i \in 1..Len(attrib) : attrib[i][1] = key
    THEN Some(attrib[CHOOSE i \in 1..Len(attrib) : attrib[i][1] = key][2])
    ELSE None

\* the text nodes of element e: its text, then the tails of its children
TextNodes(h, e) ==
    LET runs == <<h[e].text>>
                   \o [i \in 1..Len(h[e].children) |->
                          h[h[e].children[i]].tail]
    IN  SelectSeq(runs, LAMBDA t : Truthy(t))

\* one predicate of a query on element e; contains() takes of the node-set
\* text() the string of its first node
PredicateHolds(h, e, pred) ==
    IF pred.kind = "text"
    THEN Contains(IF TextNodes(h, e) = <<>> THEN <<>>
                  ELSE TextNodes(h, e)[1][1],
                  pred.val)
    ELSE Get(h[e].attrib, pred.key) = Some(pred.val)

\* the elements a parsed query selects: .// reaches the descendants of the
\* context element, not the element itself; * is any element
XPathSelect(h, root, expr) ==
    SelectSeq(Tail(Iter(h, root)),
              LAMBDA e : /\ expr.test = <<"*">> \/ h[e].tag = expr.test
                         /\ \A i \in 1..Len(expr.preds) :
                               PredicateHolds(h, e, expr.preds[i]))

\* the loop of the except branch
Fallback(h, root, tag, text, attributes) ==
    SelectSeq(Iter(h, root),
              LAMBDA e :
                 /\ ~(Truthy(tag) /\ h[e].tag # tag[1])
                 /\ ~(Truthy(text) /\ (~Truthy(h[e].text)
                                        \/ ~Contains(h[e].text[1], text[1])))
                 /\ Truthy(attributes) =>
                       \A i \in 1..Len(attributes[1]) :
                          Get(h[e].attrib, attributes[1][i][1])
                             = Some(attributes[1][i][2]))

\* root.xpath(xpath) raises on a query it cannot parse
XPathRaises(tag, text, attributes) ==
    ~ParseXPath(BuildXPath(tag, text, attributes)).ok

find_elements_by_content(h, root, tag, text, attributes) ==
    IF XPathRaises(tag, text, attributes)
    THEN Fallback(h, root, tag, text, attributes)
    ELSE XPathSelect(h, root, ParseXPath(BuildXPath(tag, text, attributes)))

-----------------------------------------------------------------------------
(* Inputs: one or two parsed documents in the heap *)

MaxCodecNodes == 4

MaxMergeNodes == 5

MaxCopyNodes == 4

MaxPathNodes == 6

MaxCompareNodes == 6

MaxFindNodes == 4

MaxEquivTreeNodes == 2

MaxSeqNodes == 4

MaxTailNodes == 3

MaxReadNodes == 4

MaxStepNodes == 4

Tags == {<<"a">>, <<"b">>}

RootTag == <<"r">>

OtherRootTag == <<"s">>

k1 == <<<<"k">>, <<"1">>>>

k2 == <<<<"k">>, <<"2">>>>

j1 == <<<<"j">>, <<"1">>>>

Attribs == {<<k1>>, <<k2, j1>>, <<j1, k2>>}

Texts == {Some(<<>>), Some(<<" ">>), Some(<<"t">>), Some(<<" ", "t", " ">>)}

\* what a node may carry besides its tag, <<attrib, text>>: attributes or
\* a text
OneDecor == {<<a, None>> : a \in Attribs} \cup {<<<<>>, t>> : t \in Texts}

\* attributes, a text, or both
Decor == OneDecor \cup {<<<<k1>>, Some(<<"t">>)>>, <<<<k1>>, Some(<<" ">>)>>}

\* how many nodes of a document carry attributes or text
DecoratedCounts == {0, 1, 2}

\* the nodes 1..n as a sequence, in document order
Ids(n) == [i \in 1..n |-> i]

\* the heap of a forest given by its parent vector: a node's children are
\* the nodes naming it as parent, in document order
MkDoc(par, tg, dec) ==
    [i \in DOMAIN par |->
        [tag |-> tg[i],
         attrib |-> IF i \in DOMAIN dec THEN dec[i][1] ELSE <<>>,
         text |-> IF i \in DOMAIN dec THEN dec[i][2] ELSE None,
         tail |-> None,
         children |-> SelectSeq(Ids(Len(par)), LAMBDA j : par[j] = i),
         parent |-> par[i]]]

\* parent vectors of a forest of two trees: nodes 1..nb under root 1 and
\* nodes nb+1..nb+nu under root nb+1 (nu = 0: one tree)
ParentVecs(nb, nu) ==
    {par \in [1..(nb + nu) -> 0..(nb + nu)] :
        \A i \in 1..(nb + nu) :
            IF i = 1 \/ i = nb + 1 THEN par[i] = NoNode
            ELSE /\ par[i] < i
                 /\ par[i] >= (IF i <= nb THEN 1 ELSE nb + 1)}

\* the tag assignments: RootTag on the first root, one of updTags on the
\* second, a child tag elsewhere
TagVecs(par, updTags) ==
    {f \in [DOMAIN par -> Tags \cup {RootTag} \cup updTags] :
        \A i \in DOMAIN par :
            IF i = 1 THEN f[i] = RootTag
            ELSE IF par[i] = NoNode THEN f[i] \in updTags
            ELSE f[i] \in Tags}

\* the document in h and an independent copy of it (the same text parsed
\* twice): the same nodes again, at fresh ids
ParsedTwice(h) ==
    LET n == Len(h)
    IN  [i \in 1..(2 * n) |->
            IF i <= n THEN h[i]
            ELSE [h[i - n] EXCEPT
                    !.children = [m \in DOMAIN @ |-> @[m] + n],
                    !.parent = IF @ = NoNode THEN NoNode ELSE @ + n]]

\* doc holds a forest of nb + nu parsed nodes, and with `twice` an
\* independent copy of it
IsParsed(nb, nu, updTags, decor, twice) ==
    \E par \in ParentVecs(nb, nu) :
        \E tg \in TagVecs(par, updTags) :
            \E S \in {X \in SUBSET (1..(nb + nu)) :
                        Cardinality(X) \in DecoratedCounts} :
                \E dec \in [S -> decor] :
                    doc = IF twice THEN ParsedTwice(MkDoc(par, tg, dec))
                          ELSE MkDoc(par, tg, dec)

Nodes == DOMAIN doc

-----------------------------------------------------------------------------
(* The map codec on one document *)

\* a text without its leading and trailing whitespace; an absent text
\* counts as empty
Trimmed(t) ==
    IF t = None THEN <<>>
    ELSE LET s == t[1]
             ink == {i \in 1..Len(s) : s[i] \notin Whitespace}
         IN  IF ink = {} THEN <<>>
             ELSE SubSeq(s, CHOOSE i \in ink : \A j \in ink : i <= j,
                            CHOOSE i \in ink : \A j \in ink : i >= j)

AttrKeys(attrib) == {attrib[i][1] : i \in 1..Len(attrib)}

\* element.get(key) for a key the element has
AttrValue(attrib, key) ==
    attrib[CHOOSE i \in 1..Len(attrib) : attrib[i][1] = key][2]

InitCodec ==
    /\ \E n \in 1..MaxCodecNodes : IsParsed(n, 0, {}, Decor, FALSE)
    /\ base = 1
    /\ update = NoNode
    /\ elem = NoNode
    /\ query = PyNone
    /\ op = "init"
    /\ ret = PyNone
    /\ pre = doc
    /\ stack = <<>>

XmlToDict ==
    /\ op = "init"
    /\ op' = "xml_to_dict"
    /\ ret' = xml_to_dict(Tree(doc, base))
    /\ pre' = doc
    /\ UNCHANGED <<doc, base, update, elem, query, stack>>

DictToXml ==
    /\ op = "xml_to_dict"
    /\ op' = "dict_to_xml"
    /\ ret' = dict_to_xml(ret, doc[base].tag)
    /\ UNCHANGED <<doc, base, update, elem, query, pre, stack>>

NextCodec == XmlToDict \/ DictToXml

SpecCodec == InitCodec /\ [][NextCodec]_vars

\* C1: the round trip: for every tree T, dict_to_xml(xml_to_dict(T), T.tag)
\* is structurally equal to T (no node of the model carries tail text).
C1_RoundTrip ==
    op = "dict_to_xml" => compare_xml_elements(ret, Tree(doc, base))

\* xml_to_dict of node n; of base it is what the call returned
ToMap(n) == IF n = base THEN ret ELSE xml_to_dict(Tree(doc, n))

\* C19: the attributes rule: for a node with at least one attribute the
\* result is a mapping (not a scalar, not the empty marker) whose
\* "@attributes" key holds exactly the node's attribute name-to-value
\* mapping; for a node without attributes the result has no "@attributes"
\* key.
C19_AttributesRule ==
    op = "xml_to_dict" =>
        \A n \in Nodes :
            LET attrib == doc[n].attrib
                r == ToMap(n)
            IN  IF attrib # <<>>
                THEN /\ r.kind = "dict"
                     /\ AttributesKey \in Keys(r.val)
                     /\ LET held == Lookup(r.val, AttributesKey)
                        IN  /\ held.kind = "dict"
                            /\ Len(held.val) = Cardinality(AttrKeys(attrib))
                            /\ \A k \in AttrKeys(attrib) :
                                  /\ k \in Keys(held.val)
                                  /\ Lookup(held.val, k)
                                        = PyStr(AttrValue(attrib, k))
                ELSE r.kind = "dict" => AttributesKey \notin Keys(r.val)

\* an element with two attributes and nothing else, and a child without
\* attributes
C19_Witness ==
    /\ op = "xml_to_dict"
    /\ Len(doc[base].attrib) = 2
    /\ doc[base].text = None
    /\ doc[base].children = <<>>
    /\ ret.kind = "dict"
    /\ Keys(ret.val) = {AttributesKey}

\* C20: the text rule: for a node with non-blank direct text the result is
\* the trimmed text itself, a scalar, exactly when the node has no children
\* and no attributes, and otherwise a mapping whose "#text" key holds the
\* trimmed text; a node with absent or blank text yields no "#text" key.
C20_TextRule ==
    op = "xml_to_dict" =>
        \A n \in Nodes :
            LET r == ToMap(n)
                trimmed == Trimmed(doc[n].text)
            IN  IF trimmed # <<>>
                THEN IF doc[n].children = <<>> /\ doc[n].attrib = <<>>
                     THEN r = PyStr(trimmed)
                     ELSE /\ r.kind = "dict"
                          /\ TextKey \in Keys(r.val)
                          /\ Lookup(r.val, TextKey) = PyStr(trimmed)
                ELSE /\ r.kind # "str"
                     /\ r.kind = "dict" => TextKey \notin Keys(r.val)

\* a text with whitespace around it on an element with a child, and a
\* childless element with blank text
C20_Witness ==
    /\ op = "xml_to_dict"
    /\ doc[base].text = Some(<<" ", "t", " ">>)
    /\ Len(doc[base].children) = 1
    /\ doc[doc[base].children[1]].text = Some(<<" ">>)
    /\ ret.kind = "dict"
    /\ Lookup(ret.val, TextKey) = PyStr(<<"t">>)

\* the encoded values of the children of n with tag t, in document order
EncodedChildren(n, t) ==
    LET kids == SelectSeq(doc[n].children, LAMBDA c : doc[c].tag = t)
    IN  [i \in 1..Len(kids) |-> xml_to_dict(Tree(doc, kids[i]))]

\* C21: child grouping: for every node and every child tag t, when one child
\* has tag t the result holds that child's encoded value under key t, and
\* when k > 1 children have it the result holds under t the sequence of
\* their k encoded values in document order, also with children of other
\* tags between them and also when an encoded value is the empty marker.
C21_ChildGrouping ==
    op = "xml_to_dict" =>
        \A n \in Nodes :
            \A t \in {doc[doc[n].children[i]].tag :
                         i \in 1..Len(doc[n].children)} :
                LET r == ToMap(n)
                    values == EncodedChildren(n, t)
                IN  /\ r.kind = "dict"
                    /\ t \in Keys(r.val)
                    /\ Lookup(r.val, t) = IF Len(values) = 1 THEN values[1]
                                          ELSE PyList(values)

\* children a, b, a of which the first is empty
C21_Witness ==
    /\ op = "xml_to_dict"
    /\ Len(doc[base].children) = 3
    /\ doc[doc[base].children[1]].tag = <<"a">>
    /\ doc[doc[base].children[2]].tag = <<"b">>
    /\ doc[doc[base].children[3]].tag = <<"a">>
    /\ doc[doc[base].children[3]].text = Some(<<"t">>)
    /\ ret.kind = "dict"
    /\ Lookup(ret.val, <<"a">>) = PyList(<<PyNone, PyStr(<<"t">>)>>)

\* C22: the empty marker: the result is None if and only if the node has no
\* attributes, no non-blank direct text and no children; a node with
\* attributes only gives a mapping holding just "@attributes".
C22_EmptyMarker ==
    op = "xml_to_dict" =>
        \A n \in Nodes :
            LET r == ToMap(n)
                bare == /\ doc[n].attrib = <<>>
                        /\ Trimmed(doc[n].text) = <<>>
                        /\ doc[n].children = <<>>
            IN  /\ r = PyNone <=> bare
                /\ (/\ doc[n].attrib # <<>>
                    /\ Trimmed(doc[n].text) = <<>>
                    /\ doc[n].children = <<>>)
                      => r.kind = "dict" /\ Keys(r.val) = {AttributesKey}

\* an element with blank text only, beside one with attributes only
C22_Witness ==
    /\ op = "xml_to_dict"
    /\ Len(doc[base].children) = 2
    /\ doc[doc[base].children[1]].tag = <<"a">>
    /\ doc[doc[base].children[2]].tag = <<"b">>
    /\ doc[doc[base].children[1]].text = Some(<<" ">>)
    /\ doc[doc[base].children[1]].attrib = <<>>
    /\ doc[doc[base].children[2]].attrib # <<>>
    /\ doc[doc[base].children[2]].text = None
    /\ ret.kind = "dict"
    /\ Lookup(ret.val, <<"a">>) = PyNone

\* the <<key, item>> pairs of a mapping that stand for children: one per
\* non-sequence value, one per element of a sequence value, in key order
RECURSIVE ChildEntries(_)
ChildEntries(items) ==
    IF items = <<>> THEN <<>>
    ELSE LET key == Head(items)[1]
             val == Head(items)[2]
             here == IF key \in {AttributesKey, TextKey} THEN <<>>
                     ELSE IF val.kind = "list"
                          THEN [i \in 1..Len(val.val) |-> <<key, val.val[i]>>]
                          ELSE <<<<key, val>>>>
         IN  here \o ChildEntries(Tail(items))

\* node is what the specification's fromMap makes of value under tag
RECURSIVE Constructed(_, _, _)
Constructed(node, tag, value) ==
    /\ node.tag = tag
    /\ value.kind = "str" =>
          /\ node.text = Some(value.val)
          /\ node.children = <<>>
          /\ node.attrib = <<>>
    /\ value.kind = "None" => node.children = <<>> /\ node.attrib = <<>>
    /\ value.kind = "dict" =>
          LET entries == ChildEntries(value.val)
              attrs == IF AttributesKey \in Keys(value.val)
                       THEN Lookup(value.val, AttributesKey).val
                       ELSE <<>>
          IN  /\ {<<node.attrib[i][1], PyStr(node.attrib[i][2])>> :
                     i \in 1..Len(node.attrib)}
                    = {attrs[i] : i \in 1..Len(attrs)}
              /\ Len(node.attrib) = Len(attrs)
              /\ node.text = IF TextKey \in Keys(value.val)
                             THEN Some(Lookup(value.val, TextKey).val)
                             ELSE None
              /\ Len(node.children) = Len(entries)
              /\ \A i \in 1..Len(entries) :
                    Constructed(node.children[i], entries[i][1],
                                entries[i][2])

\* C23: fromMap construction: dict_to_xml(value, rootTag) is a node tagged
\* rootTag; a scalar value is its text and it has no children; of a mapping,
\* "@attributes" gives its attributes, "#text" its text, and every other
\* key, in key order, one child tagged with the key for a non-sequence value
\* or one child per element for a sequence value; "@attributes" and "#text"
\* give no child.
C23_FromMapConstruction ==
    op = "dict_to_xml" =>
        Constructed(ret, doc[base].tag, xml_to_dict(Tree(doc, base)))

\* a mapping with attributes, text, a repeated key and a single key
C23_Witness ==
    /\ op = "dict_to_xml"
    /\ ret.attrib # <<>>
    /\ ret.text = Some(<<"t">>)
    /\ Len(ret.children) = 3
    /\ ret.children[1].tag = <<"a">>
    /\ ret.children[2].tag = <<"a">>
    /\ ret.children[3].tag = <<"b">>
    /\ doc[doc[base].children[2]].tag = <<"b">>

-----------------------------------------------------------------------------
(* The map codec on a document with mixed content *)

TailTexts == {Some(<<"z">>)}

\* heap h with the tails tl on some of its nodes
WithTails(h, tl) ==
    [i \in DOMAIN h |->
        IF i \in DOMAIN tl THEN [h[i] EXCEPT !.tail = tl[i]] ELSE h[i]]

\* a document with text after some of its child elements at base, and at
\* update the same document without those text runs
InitTail ==
    /\ \E n \in 2..MaxTailNodes :
          \E par \in ParentVecs(n, 0) :
              \E tg \in TagVecs(par, {}) :
                  \E S \in {X \in SUBSET (1..n) :
                              Cardinality(X) \in DecoratedCounts} :
                      \E dec \in [S -> OneDecor] :
                          \E TS \in SUBSET (2..n) :
                              \E tl \in [TS -> TailTexts] :
                                  /\ doc = WithTails(
                                              ParsedTwice(MkDoc(par, tg, dec)),
                                              tl)
                                  /\ update = n + 1
    /\ base = 1
    /\ elem = NoNode
    /\ query = PyNone
    /\ op = "init"
    /\ ret = PyNone
    /\ pre = doc
    /\ stack = <<>>

SpecTail == InitTail /\ [][NextCodec]_vars

\* C26: the mixed-content limitation: xml_to_dict reads only the direct
\* text of a node, the run before its first child; text that follows a
\* child element is not in the result, so two trees that differ only in
\* such runs encode to the same value, child entries included.
C26_TailTextDropped ==
    op = "xml_to_dict" =>
        /\ ret = xml_to_dict(Tree(doc, update))
        /\ \A i \in 1..Len(doc[base].children) :
              xml_to_dict(Tree(doc, doc[base].children[i]))
                 = xml_to_dict(Tree(doc, doc[update].children[i]))

\* text before a child, text in the child and text after it
C26_Witness ==
    /\ op = "xml_to_dict"
    /\ doc[base].text = Some(<<"t">>)
    /\ Len(doc[base].children) = 1
    /\ doc[doc[base].children[1]].text = Some(<<"t">>)
    /\ doc[doc[base].children[1]].tail = Some(<<"z">>)
    /\ doc[doc[update].children[1]].tail = None
    /\ ret = PyDict(<<<<TextKey, PyStr(<<"t">>)>>, <<<<"a">>, PyStr(<<"t">>)>>>>)

-----------------------------------------------------------------------------
(* merge_xml_elements on a base and an update document *)

InitMerge ==
    /\ \E nb \in 1..(MaxMergeNodes - 1) :
          \E nu \in 1..(MaxMergeNodes - nb) :
              /\ IsParsed(nb, nu, {RootTag}, Decor, FALSE)
              /\ update = nb + 1
    /\ base = 1
    /\ elem = NoNode
    /\ query = PyNone
    /\ op = "init"
    /\ ret = PyNone
    /\ pre = doc
    /\ stack = <<>>

MergeXmlElements ==
    /\ op = "init"
    /\ op' = "merge_xml_elements"
    /\ doc' = merge_xml_elements(doc, base, update)
    /\ ret' = base
    /\ pre' = doc
    /\ UNCHANGED <<base, update, elem, query, stack>>

NextMerge == MergeXmlElements

SpecMerge == InitMerge /\ [][NextMerge]_vars

\* merge of a document with an independent copy of itself
InitCopy ==
    /\ \E n \in 1..MaxCopyNodes :
          /\ IsParsed(n, 0, {}, Decor, TRUE)
          /\ update = n + 1
    /\ base = 1
    /\ elem = NoNode
    /\ query = PyNone
    /\ op = "init"
    /\ ret = PyNone
    /\ pre = doc
    /\ stack = <<>>

SpecCopy == InitCopy /\ [][NextMerge]_vars

-----------------------------------------------------------------------------
(* Properties of merge_xml_elements *)

Merged == op = "merge_xml_elements"

\* the nodes of the tree rooted at n
RECURSIVE Subtree(_, _)
Subtree(h, n) ==
    {n} \cup UNION {Subtree(h, h[n].children[i]) :
                      i \in 1..Len(h[n].children)}

ChildTags(h, n) == {h[h[n].children[i]].tag : i \in 1..Len(h[n].children)}

\* the children of n with tag t, in document order
ChildrenWithTag(h, n, t) ==
    SelectSeq(h[n].children, LAMBDA c : h[c].tag = t)

DistinctChildTags(h, n) ==
    \A t \in ChildTags(h, n) : Len(ChildrenWithTag(h, n, t)) = 1

\* the heap after merging the elements of us, in order, into b
RECURSIVE MergeAll(_, _, _)
MergeAll(h, b, us) ==
    IF us = <<>> THEN h
    ELSE MergeAll(merge_xml_elements(h, b, Head(us)), b, Tail(us))

\* C2 as stated: merging T with an independent copy of T gives a tree
\* structurally equal to T, for every T.
C2_MergeIdempotent ==
    Merged => compare_xml_elements(Tree(doc, ret), Tree(pre, base))

\* C2 amended: merging T with an independent copy of T gives a tree
\* structurally equal to T when no node of T has two children of one tag.
C2_MergeIdempotentDistinctTags ==
    (Merged /\ \A n \in Subtree(pre, base) : DistinctChildTags(pre, n))
        => compare_xml_elements(Tree(doc, ret), Tree(pre, base))

C2_Witness ==
    /\ Merged
    /\ \A n \in Subtree(pre, base) : DistinctChildTags(pre, n)
    /\ Len(pre[base].children) = 2
    /\ \E n \in Subtree(pre, base) : pre[n].attrib # <<>>
    /\ Tree(pre, update) = Tree(pre, base)

\* C3: merge_xml_elements(base, overlay) leaves overlay as it was: every
\* node of overlay's tree keeps its attributes, text, children (in order)
\* and parent.
C3_OverlayNotMutated ==
    Merged => \A n \in Subtree(pre, update) : doc[n] = pre[n]

\* C5 as stated: when base has several children with the tag of an overlay
\* child, the overlay child is merged into the first of them and the other
\* same-tag base children are unchanged.
C5_MergesIntoFirst ==
    Merged =>
        \A t \in ChildTags(pre, base) \cap ChildTags(pre, update) :
            LET bs == ChildrenWithTag(pre, base, t)
                us == ChildrenWithTag(pre, update, t)
            IN  Len(bs) > 1 =>
                  /\ Tree(doc, bs[1]) = Tree(MergeAll(pre, bs[1], us), bs[1])
                  /\ \A i \in 2..Len(bs) : Tree(doc, bs[i]) = Tree(pre, bs[i])

\* C5 amended: when base has several children with the tag of an overlay
\* child, the overlay child is merged into the last of them in document
\* order and the other same-tag base children are unchanged.
C5_MergesIntoLast ==
    Merged =>
        \A t \in ChildTags(pre, base) \cap ChildTags(pre, update) :
            LET bs == ChildrenWithTag(pre, base, t)
                us == ChildrenWithTag(pre, update, t)
                last == bs[Len(bs)]
            IN  Len(bs) > 1 =>
                  /\ Tree(doc, last) = Tree(MergeAll(pre, last, us), last)
                  /\ \A i \in 1..(Len(bs) - 1) :
                        Tree(doc, bs[i]) = Tree(pre, bs[i])

C5_Witness ==
    /\ Merged
    /\ \E t \in ChildTags(pre, base) \cap ChildTags(pre, update) :
          LET bs == ChildrenWithTag(pre, base, t)
          IN  /\ Len(bs) > 1
              /\ Tree(doc, bs[Len(bs)]) # Tree(pre, bs[Len(bs)])

\* the children of overlay that follow an earlier child with their tag, when
\* base has a child with that tag
LaterSameTag(h, b, u) ==
    SelectSeq(h[u].children,
              LAMBDA c : /\ h[c].tag \in ChildTags(h, b)
                         /\ ChildrenWithTag(h, u, h[c].tag)[1] # c)

InSeq(x, seq) == \E i \in 1..Len(seq) : seq[i] = x

\* C6 as stated: when overlay has several children with one tag and base
\* has a child with that tag, only the first of them is merged; each later
\* one is appended to base's children, whose count grows by their number.
C6_LaterChildrenAppended ==
    Merged =>
        LET later == LaterSameTag(pre, base, update)
            fresh == SelectSeq(pre[update].children,
                        LAMBDA c : pre[c].tag \notin ChildTags(pre, base))
        IN  /\ \A i \in 1..Len(later) : InSeq(later[i], doc[base].children)
            /\ Len(doc[base].children)
                 = Len(pre[base].children) + Len(fresh) + Len(later)

\* C6 amended: when overlay has several children with one tag and base has
\* a child with that tag, every one of them, in overlay order, is merged
\* into base's last child with that tag; none is appended, each stays a
\* child of overlay, and base's child count grows only by the overlay
\* children whose tag base lacks.
C6_AllSameTagChildrenMerged ==
    Merged =>
        LET fresh == SelectSeq(pre[update].children,
                        LAMBDA c : pre[c].tag \notin ChildTags(pre, base))
        IN  /\ \A t \in ChildTags(pre, base) \cap ChildTags(pre, update) :
                  LET bs == ChildrenWithTag(pre, base, t)
                      us == ChildrenWithTag(pre, update, t)
                      last == bs[Len(bs)]
                  IN  /\ Tree(doc, last) = Tree(MergeAll(pre, last, us), last)
                      /\ \A i \in 1..Len(us) :
                            /\ ~InSeq(us[i], doc[base].children)
                            /\ doc[us[i]].parent = update
            /\ Len(doc[base].children) = Len(pre[base].children) + Len(fresh)

C6_Witness ==
    /\ Merged
    /\ LaterSameTag(pre, base, update) # <<>>
    /\ \E t \in ChildTags(pre, base) :
          /\ Len(ChildrenWithTag(pre, update, t)) = 2
          /\ pre[ChildrenWithTag(pre, update, t)[2]].text # None

\* the child of n with tag t, when there is exactly one
ChildWithTag(h, n, t) == ChildrenWithTag(h, n, t)[1]

\* C7: when base and overlay each have pairwise distinct child tags, the
\* call returns base, whose children are its original children in their
\* order, each merged with overlay's same-tag child when there is one and
\* unchanged otherwise, followed by overlay's children whose tag base
\* lacks, in overlay order.
C7_DistinctTagsMerge ==
    (/\ Merged
     /\ DistinctChildTags(pre, base)
     /\ DistinctChildTags(pre, update))
        => LET fresh == SelectSeq(pre[update].children,
                           LAMBDA c : pre[c].tag \notin ChildTags(pre, base))
               old == pre[base].children
           IN  /\ ret = base
               /\ doc[base].children = old \o fresh
               /\ \A i \in 1..Len(old) :
                     Tree(doc, old[i]) =
                        IF pre[old[i]].tag \in ChildTags(pre, update)
                        THEN Tree(merge_xml_elements(pre, old[i],
                                     ChildWithTag(pre, update,
                                                  pre[old[i]].tag)),
                                  old[i])
                        ELSE Tree(pre, old[i])
               /\ \A i \in 1..Len(fresh) :
                     Tree(doc, fresh[i]) = Tree(pre, fresh[i])

C7_Witness ==
    /\ Merged
    /\ DistinctChildTags(pre, base)
    /\ DistinctChildTags(pre, update)
    /\ Len(pre[base].children) = 1
    /\ Len(pre[update].children) = 2
    /\ Len(doc[base].children) = 2
    /\ Tree(doc, pre[base].children[1]) # Tree(pre, pre[base].children[1])

\* C8: after the merge, an attribute overlay has is on base with overlay's
\* value, an attribute only base had keeps its value, and base has no
\* attribute that was in neither.
C8_AttributeMerge ==
    Merged =>
        LET old == pre[base].attrib
            new == pre[update].attrib
            got == doc[base].attrib
        IN  /\ AttrKeys(got) = AttrKeys(old) \cup AttrKeys(new)
            /\ Cardinality(AttrKeys(got)) = Len(got)
            /\ \A k \in AttrKeys(new) :
                  AttrValue(got, k) = AttrValue(new, k)
            /\ \A k \in AttrKeys(old) \ AttrKeys(new) :
                  AttrValue(got, k) = AttrValue(old, k)

C8_Witness ==
    /\ Merged
    /\ \E k \in AttrKeys(pre[base].attrib) \cap AttrKeys(pre[update].attrib) :
          AttrValue(pre[base].attrib, k) # AttrValue(pre[update].attrib, k)
    /\ AttrKeys(pre[base].attrib) \ AttrKeys(pre[update].attrib) # {}

\* C9: after the merge base's text is overlay's text when that is present
\* and not blank; when it is absent, empty or blank, base's text (also an
\* absent one) is as before; base's children of before are kept.
C9_TextMerge ==
    Merged =>
        LET t == pre[update].text
            blank == t = None \/ \A i \in 1..Len(t[1]) : t[1][i] \in Whitespace
        IN  /\ ~blank => doc[base].text = t
            /\ blank => doc[base].text = pre[base].text
            /\ SubSeq(doc[base].children, 1, Len(pre[base].children))
                  = pre[base].children

C9_Witness ==
    /\ Merged
    /\ pre[update].text = Some(<<" ">>)
    /\ pre[base].text = Some(<<" ", "t", " ">>)
    /\ doc[base].text = Some(<<" ", "t", " ">>)
    /\ pre[base].children # <<>>

-----------------------------------------------------------------------------
(* merge_xml_elements on documents whose root tags differ *)

InitMergeTags ==
    /\ \E nb \in 1..(MaxMergeNodes - 1) :
          \E nu \in 1..(MaxMergeNodes - nb) :
              /\ IsParsed(nb, nu, {OtherRootTag}, OneDecor, FALSE)
              /\ update = nb + 1
    /\ base = 1
    /\ elem = NoNode
    /\ query = PyNone
    /\ op = "init"
    /\ ret = PyNone
    /\ pre = doc
    /\ stack = <<>>

SpecMergeTags == InitMergeTags /\ [][NextMerge]_vars

\* C30: merge_xml_elements never checks or changes tags: it returns the
\* base node it was given, with base's tag unchanged, also when overlay's
\* root tag differs; it reports no error for such a pair; and it removes no
\* child from base, whose children of before are still its first children.
C30_TagsNotChecked ==
    Merged =>
        /\ ret = base
        /\ doc[base].tag = pre[base].tag
        /\ Len(doc[base].children) >= Len(pre[base].children)
        /\ SubSeq(doc[base].children, 1, Len(pre[base].children))
              = pre[base].children
        /\ \A n \in Subtree(pre, base) : doc[n].tag = pre[n].tag

C30_Witness ==
    /\ Merged
    /\ pre[base].tag # pre[update].tag
    /\ doc[base].attrib # pre[base].attrib
    /\ Len(pre[base].children) = 1
    /\ Len(doc[base].children) = 2

-----------------------------------------------------------------------------
(* merge_xml_elements called again and again on two documents *)

InitMergeSeq ==
    /\ \E nb \in 1..(MaxSeqNodes - 1) :
          \E nu \in 1..(MaxSeqNodes - nb) :
              /\ IsParsed(nb, nu, {RootTag}, OneDecor, FALSE)
              /\ update = nb + 1
    /\ base = 1
    /\ elem = NoNode
    /\ query = PyNone
    /\ op = "init"
    /\ ret = PyNone
    /\ pre = doc
    /\ stack = <<>>

\* one more call, of either document into the other
MergeEitherWay ==
    /\ \E b \in {base, update} :
          LET u == IF b = base THEN update ELSE base
          IN  /\ doc' = merge_xml_elements(doc, b, u)
              /\ ret' = b
    /\ op' = "merge_xml_elements"
    /\ pre' = doc
    /\ UNCHANGED <<base, update, elem, query, stack>>

NextMergeSeq == MergeEitherWay

SpecMergeSeq == InitMergeSeq /\ [][NextMergeSeq]_vars

\* the node reached from n by k parent steps, NoNode past a root
RECURSIVE Ancestor(_, _, _)
Ancestor(h, n, k) ==
    IF k = 0 \/ n = NoNode THEN n ELSE Ancestor(h, h[n].parent, k - 1)

\* how often x occurs in seq
Count(seq, x) == Cardinality({i \in 1..Len(seq) : seq[i] = x})

\* the nodes that reach root by parent steps
TreeOf(h, root) ==
    {n \in DOMAIN h : \E k \in 0..Len(h) : Ancestor(h, n, k) = root}

\* C25: tree invariants survive merge: after any sequence of
\* merge_xml_elements calls on two well-formed trees without a common node,
\* every tree is acyclic, a root has no parent, every other node is exactly
\* once in the children of exactly one node, which is its parent, and no
\* node is in both the base tree and the overlay tree.
C25_TreeInvariants ==
    /\ \A n \in Nodes : Ancestor(doc, n, Len(doc)) = NoNode
    /\ doc[base].parent = NoNode
    /\ doc[update].parent = NoNode
    /\ \A n \in Nodes \ {base, update} :
          /\ doc[n].parent # NoNode
          /\ Count(doc[doc[n].parent].children, n) = 1
          /\ \A p \in Nodes \ {doc[n].parent} : Count(doc[p].children, n) = 0
    /\ \A p \in Nodes :
          Count(doc[p].children, base) = 0 /\ Count(doc[p].children, update) = 0
    /\ TreeOf(doc, base) \cap TreeOf(doc, update) = {}
    /\ TreeOf(doc, base) \cup TreeOf(doc, update) = Nodes

\* a subtree of the base document that a merge has moved into the overlay
\* document
C25_Witness ==
    /\ Merged
    /\ ret = update
    /\ pre # doc
    /\ \E n \in Nodes :
          /\ n < update
          /\ n \in TreeOf(doc, update)
          /\ doc[n].children # <<>>

-----------------------------------------------------------------------------
(* get_element_path on the nodes of one document *)

InitPath ==
    /\ \E n \in 1..MaxPathNodes : IsParsed(n, 0, {}, {}, FALSE)
    /\ base = 1
    /\ update = NoNode
    /\ elem = NoNode
    /\ query = PyNone
    /\ op = "init"
    /\ ret = PyNone
    /\ pre = doc
    /\ stack = <<>>

GetElementPath ==
    /\ op = "init"
    /\ \E n \in Nodes :
          /\ elem' = n
          /\ ret' = get_element_path(doc, n)
    /\ op' = "get_element_path"
    /\ pre' = doc
    /\ UNCHANGED <<doc, base, update, query, stack>>

NextPath == GetElementPath

SpecPath == InitPath /\ [][NextPath]_vars

\* C4: in one tree, the path of a node differs from the path of every
\* other node.
C4_PathUnique ==
    op = "get_element_path" =>
        \A b \in Subtree(doc, base) \ {elem} :
            get_element_path(doc, b) # ret

C4_Witness ==
    /\ op = "get_element_path"
    /\ ret = <<"/", "r", "/", "a", "[", "2", "]", "/", "b", "[", "1", "]">>
    /\ \E b \in Nodes :
          get_element_path(doc, b) = <<"/", "r", "/", "a", "[", "1", "]", "/", "b">>

\* the pieces of s between the occurrences of the character sep
RECURSIVE Split(_, _)
Split(s, sep) ==
    LET at == {i \in 1..Len(s) : s[i] = sep}
    IN  IF at = {} THEN <<s>>
        ELSE LET i == CHOOSE x \in at : \A y \in at : x <= y
             IN  <<SubSeq(s, 1, i - 1)>> \o Split(SubSeq(s, i + 1, Len(s)), sep)

\* the segments of a path string, root first
Segments(path) == Tail(Split(path, "/"))

\* the nodes from the root of n's tree down to n
RECURSIVE Chain(_, _)
Chain(h, n) ==
    IF h[n].parent = NoNode THEN <<n>>
    ELSE Append(Chain(h, h[n].parent), n)

\* the children of n's parent with n's tag, in document order
SameTagSiblings(h, n) == ChildrenWithTag(h, h[n].parent, h[n].tag)

\* the 1-based rank of n among them
Rank(h, n) ==
    LET sibs == SameTagSiblings(h, n)
    IN  Cardinality({i \in 1..Len(sibs) :
                       \E j \in i..Len(sibs) : sibs[j] = n})

\* C12: path indexing: the segment of each non-root node on the
\* root-to-node chain is tag[k] when its parent has more than one child
\* with that tag, k being the node's 1-based rank among them in document
\* order, and the bare tag when it is the only such child; the segments are
\* joined with "/" in root-to-node order after a leading "/".
C12_PathIndexing ==
    op = "get_element_path" =>
        LET chain == Chain(doc, elem)
            segs == Segments(ret)
        IN  /\ Head(ret) = "/"
            /\ Len(segs) = Len(chain)
            /\ \A i \in 2..Len(chain) :
                  segs[i] =
                     IF Len(SameTagSiblings(doc, chain[i])) > 1
                     THEN doc[chain[i]].tag \o <<"[">>
                            \o <<Digit(Rank(doc, chain[i]))>> \o <<"]">>
                     ELSE doc[chain[i]].tag

\* the second of three same-tag children, and a node below it
C12_Witness ==
    /\ op = "get_element_path"
    /\ ret = <<"/", "r", "/", "a", "[", "2", "]", "/", "b">>
    /\ Len(ChildrenWithTag(doc, base, <<"a">>)) = 3

\* C13: the root's segment is never indexed: the first segment of every
\* node's path is exactly the root's tag, and the path of the root is "/"
\* followed by its tag.
C13_RootNotIndexed ==
    op = "get_element_path" =>
        LET root == Chain(doc, elem)[1]
        IN  /\ Segments(ret)[1] = doc[root].tag
            /\ elem = root => ret = <<"/">> \o doc[root].tag

C13_Witness ==
    /\ op = "get_element_path"
    /\ elem = base
    /\ ret = <<"/", "r">>
    /\ Len(doc[base].children) = 3

-----------------------------------------------------------------------------
(* get_element_path on an element removed from its parent *)

\* parent.remove(element): the element leaves its parent's children and has
\* no parent; it keeps its own children
RemoveChild(h, parent, element) ==
    [h EXCEPT ![parent].children = Remove(@, element),
              ![element].parent = NoNode]

ParentRemove ==
    /\ op = "init"
    /\ \E n \in Nodes :
          /\ doc[n].parent # NoNode
          /\ doc' = RemoveChild(doc, doc[n].parent, n)
          /\ elem' = n
    /\ op' = "remove"
    /\ pre' = doc
    /\ UNCHANGED <<base, update, query, ret, stack>>

\* the call on the removed element; the function has no raise and no
\* except, so the outcome is the returned string
GetElementPathOfRemoved ==
    /\ op = "remove"
    /\ op' = "get_element_path"
    /\ ret' = PyStr(get_element_path(doc, elem))
    /\ UNCHANGED <<doc, base, update, elem, query, pre, stack>>

NextDetached == ParentRemove \/ GetElementPathOfRemoved

SpecDetached == InitPath /\ [][NextDetached]_vars

\* C14: InvalidPathRequest: get_element_path on a node that is not attached
\* to a tree (removed from its parent) fails with an error outcome and
\* returns no path string.
C14_DetachedNodeFails ==
    (op = "get_element_path" /\ doc[elem].parent = NoNode /\ elem # base)
        => ret.kind = "error"

-----------------------------------------------------------------------------
(* compare_xml_elements on two documents *)

\* two documents of nearly the same size
InitCompare ==
    /\ \E nb \in 1..MaxCompareNodes :
          \E nu \in {nb - 1, nb, nb + 1} \cap 1..(MaxCompareNodes - nb) :
              /\ IsParsed(nb, nu, {RootTag, OtherRootTag}, OneDecor, FALSE)
              /\ update = nb + 1
    /\ base = 1
    /\ elem = NoNode
    /\ query = PyNone
    /\ op = "init"
    /\ ret = PyNone
    /\ pre = doc
    /\ stack = <<>>

CompareXmlElements ==
    /\ op = "init"
    /\ op' = "compare_xml_elements"
    /\ ret' = compare_xml_elements(Tree(doc, base), Tree(doc, update))
    /\ pre' = doc
    /\ UNCHANGED <<doc, base, update, elem, query, stack>>

NextCompare == CompareXmlElements

SpecCompare == InitCompare /\ [][NextCompare]_vars

\* structural equality as the specification defines it
RECURSIVE StructurallyEqual(_, _)
StructurallyEqual(a, b) ==
    /\ a.tag = b.tag
    /\ Trimmed(a.text) = Trimmed(b.text)
    /\ {a.attrib[i] : i \in 1..Len(a.attrib)}
          = {b.attrib[i] : i \in 1..Len(b.attrib)}
    /\ Len(a.children) = Len(b.children)
    /\ \A i \in 1..Len(a.children) :
          StructurallyEqual(a.children[i], b.children[i])

\* C10: compare_xml_elements(a, b) is true exactly when a and b have the
\* same tag, the same trimmed text (absent as empty), the same set of
\* (attribute, value) pairs in any order, the same number of children, and
\* structurally equal children position by position.
C10_CompareIsStructuralEquality ==
    op = "compare_xml_elements" =>
        ret = StructurallyEqual(Tree(doc, base), Tree(doc, update))

C10_Witness ==
    /\ op = "compare_xml_elements"
    /\ ret = TRUE
    /\ doc[base].attrib # doc[update].attrib
    /\ Len(doc[base].children) = 2

\* C11: comparator symmetry: for every two trees a and b,
\* compare_xml_elements(a, b) equals compare_xml_elements(b, a).
C11_CompareSymmetric ==
    op = "compare_xml_elements" =>
        ret = compare_xml_elements(Tree(doc, update), Tree(doc, base))

\* two trees that differ only in the attributes of a child, which one of
\* them lacks
C11_Witness ==
    /\ op = "compare_xml_elements"
    /\ ret = FALSE
    /\ doc[base].tag = doc[update].tag
    /\ Len(doc[base].children) = 1
    /\ Len(doc[update].children) = 1
    /\ LET c1 == doc[doc[base].children[1]]
           c2 == doc[doc[update].children[1]]
       IN  /\ c1.tag = c2.tag
           /\ c1.text = c2.text
           /\ c1.attrib = <<>>
           /\ Len(c2.attrib) = 2

\* equality of two Python values: dicts have the same keys with equal
\* values in any order, lists are equal element by element
RECURSIVE PyEq(_, _)
PyEq(v, w) ==
    /\ v.kind = w.kind
    /\ v.kind = "str" => v.val = w.val
    /\ v.kind = "list" =>
          /\ Len(v.val) = Len(w.val)
          /\ \A i \in 1..Len(v.val) : PyEq(v.val[i], w.val[i])
    /\ v.kind = "dict" =>
          /\ Keys(v.val) = Keys(w.val)
          /\ Len(v.val) = Len(w.val)
          /\ \A k \in Keys(v.val) : PyEq(Lookup(v.val, k), Lookup(w.val, k))

\* C29: the map encoding respects structural equality: for every two trees
\* a and b, when compare_xml_elements(a, b) is true, xml_to_dict(a) equals
\* xml_to_dict(b): the same scalar, the same empty marker, or mappings with
\* equal keys and values.
C29_ToMapRespectsEquality ==
    (op = "compare_xml_elements" /\ ret = TRUE) =>
        PyEq(xml_to_dict(Tree(doc, base)), xml_to_dict(Tree(doc, update)))

\* equal trees whose texts differ in the whitespace around them
C29_Witness ==
    /\ op = "compare_xml_elements"
    /\ ret = TRUE
    /\ doc[base].text = Some(<<" ", "t", " ">>)
    /\ doc[update].text = Some(<<"t">>)
    /\ Len(doc[base].children) = 2

-----------------------------------------------------------------------------
(* compare_xml_elements on three documents *)

\* the root of the tree node i belongs to, in a forest of three trees of
\* n1, n2 and n3 nodes, each tree on consecutive ids with its root first
RootOf(i, n1, n2) ==
    IF i <= n1 THEN 1 ELSE IF i <= n1 + n2 THEN n1 + 1 ELSE n1 + n2 + 1

\* the parent vectors of the first n nodes of such a forest
RECURSIVE ParentVecs3(_, _, _)
ParentVecs3(n, n1, n2) ==
    IF n = 0 THEN {<<>>}
    ELSE {Append(par, p) :
             par \in ParentVecs3(n - 1, n1, n2),
             p \in IF n = RootOf(n, n1, n2) THEN {NoNode}
                   ELSE RootOf(n, n1, n2)..(n - 1)}

\* what the roots of the three documents may carry
EquivDecor ==
    {<<<<k2, j1>>, None>>, <<<<j1, k2>>, None>>, <<<<k1>>, None>>,
     <<<<>>, Some(<<" ", "t", " ">>)>>, <<<<>>, Some(<<"t">>)>>,
     <<<<>>, Some(<<" ">>)>>, <<<<>>, Some(<<"u">>)>>}

InitEquiv ==
    /\ \E n1 \in 1..MaxEquivTreeNodes, n2 \in 1..MaxEquivTreeNodes,
          n3 \in 1..MaxEquivTreeNodes :
          \E par \in ParentVecs3(n1 + n2 + n3, n1, n2) :
              \E tg \in TagVecs(par, {RootTag}) :
                  \E S \in SUBSET {1, n1 + 1, n1 + n2 + 1} :
                      \E dec \in [S -> EquivDecor] :
                          /\ doc = MkDoc(par, tg, dec)
                          /\ update = n1 + 1
                          /\ elem = n1 + n2 + 1
    /\ base = 1
    /\ query = PyNone
    /\ op = "init"
    /\ ret = PyNone
    /\ pre = doc
    /\ stack = <<>>

\* the calls on the pairs of the three documents, and on the first with
\* itself
CompareThree ==
    /\ op = "init"
    /\ op' = "compare_xml_elements"
    /\ LET a == Tree(doc, base)
           b == Tree(doc, update)
           c == Tree(doc, elem)
       IN  ret' = [aa |-> compare_xml_elements(a, a),
                   ab |-> compare_xml_elements(a, b),
                   bc |-> compare_xml_elements(b, c),
                   ac |-> compare_xml_elements(a, c)]
    /\ pre' = doc
    /\ UNCHANGED <<doc, base, update, elem, query, stack>>

NextEquiv == CompareThree

SpecEquiv == InitEquiv /\ [][NextEquiv]_vars

\* C28: compare_xml_elements is reflexive and transitive:
\* compare_xml_elements(a, a) is true for every tree a, and when
\* compare_xml_elements(a, b) and compare_xml_elements(b, c) are true,
\* compare_xml_elements(a, c) is true.
C28_CompareReflexiveTransitive ==
    op = "compare_xml_elements" =>
        /\ ret.aa
        /\ (ret.ab /\ ret.bc) => ret.ac

\* three equal trees, no two of them written alike
C28_Witness ==
    /\ op = "compare_xml_elements"
    /\ ret.ab /\ ret.bc /\ ret.ac
    /\ doc[base].attrib = <<k2, j1>>
    /\ doc[update].attrib = <<j1, k2>>
    /\ doc[elem].attrib = <<k2, j1>>
    /\ doc[base].children # <<>>

-----------------------------------------------------------------------------
(* find_elements_by_content on one document *)

FindTexts == {Some(<<"x", "t">>), Some(<<"'", "t">>)}

FindAttribs == {<<k1>>, <<k2, j1>>}

FindDecor ==
    {<<a, None>> : a \in FindAttribs} \cup {<<<<>>, t>> : t \in FindTexts}
        \cup {<<<<k1>>, Some(<<"x", "t">>)>>}

\* the tag argument: absent, the tag of a child, of the root, of no element,
\* and the wildcard of the query language
TagArgs == {None, Some(<<"a">>), Some(RootTag), Some(<<"c">>), Some(<<"*">>)}

\* the text argument: absent, parts of the texts, and a quote
TextArgs == {None, Some(<<"t">>), Some(<<"x">>), Some(<<"'">>)}

\* the attributes argument: absent, empty, one and two attributes
AttributesArgs == {None, Some(<<>>), Some(<<k1>>), Some(<<j1, k2>>)}

InitFind ==
    /\ \E n \in 1..MaxFindNodes : IsParsed(n, 0, {}, FindDecor, FALSE)
    /\ base = 1
    /\ update = NoNode
    /\ elem = NoNode
    /\ query = PyNone
    /\ op = "init"
    /\ ret = PyNone
    /\ pre = doc
    /\ stack = <<>>

FindElementsByContent ==
    /\ op = "init"
    /\ \E tag \in TagArgs, text \in TextArgs, attributes \in AttributesArgs :
          /\ query' = [tag |-> tag, text |-> text, attributes |-> attributes]
          /\ ret' = PyList(find_elements_by_content(doc, base, tag, text,
                                                    attributes))
    /\ op' = "find_elements_by_content"
    /\ pre' = doc
    /\ UNCHANGED <<doc, base, update, elem, stack>>

NextFind == FindElementsByContent

SpecFind == InitFind /\ [][NextFind]_vars

Found == op = "find_elements_by_content"

\* the matching rule of the specification: every criterion that is given
\* holds of node n
Satisfies(h, n, tag, text, attributes) ==
    /\ tag = None \/ h[n].tag = tag[1]
    /\ text = None
          \/ (h[n].text # None /\ Contains(h[n].text[1], text[1]))
    /\ attributes # None =>
          \A i \in 1..Len(attributes[1]) :
             \E j \in 1..Len(h[n].attrib) :
                h[n].attrib[j] = attributes[1][i]

SatisfiesQuery(n) ==
    Satisfies(doc, n, query.tag, query.text, query.attributes)

\* the position of node n in the document order of the tree of root
DocumentPosition(h, root, n) ==
    CHOOSE i \in 1..Len(Iter(h, root)) : Iter(h, root)[i] = n

\* C15: search scope and order: the search considers root and all of its
\* descendants, so root is in the result whenever root satisfies the
\* criteria; each node of the result is listed once, and the result is in
\* depth-first document order.
C15_ScopeAndOrder ==
    Found =>
        /\ SatisfiesQuery(base) => InSeq(base, ret.val)
        /\ \A i \in 1..Len(ret.val) :
              /\ ret.val[i] \in Subtree(doc, base)
              /\ \A j \in (i + 1)..Len(ret.val) :
                    DocumentPosition(doc, base, ret.val[i])
                       < DocumentPosition(doc, base, ret.val[j])

\* C16: search predicate: a node in scope is in the result if and only if
\* the tag is absent or is the node's tag, the text is absent or is a
\* substring of the node's direct text, and the node has every attribute
\* of the attributes argument with exactly its value.
C16_SearchPredicate ==
    Found =>
        \A n \in Subtree(doc, base) : InSeq(n, ret.val) <=> SatisfiesQuery(n)

\* C17: the two branches agree: for every tree and every criteria the
\* sequence the XPath query gives is the sequence the fallback loop gives
\* for the same arguments.
C17_BranchesAgree ==
    (Found /\ ~XPathRaises(query.tag, query.text, query.attributes)) =>
        XPathSelect(doc, base,
                    ParseXPath(BuildXPath(query.tag, query.text,
                                          query.attributes)))
           = Fallback(doc, base, query.tag, query.text, query.attributes)

\* C18: NotFound is a normal result: the call never raises and never returns
\* an error value, also when the query is rejected, and when no node
\* satisfies the criteria it returns the empty sequence.
C18_NotFoundIsEmpty ==
    Found =>
        /\ ret.kind = "list"
        /\ (\A n \in Subtree(doc, base) : ~SatisfiesQuery(n)) => ret.val = <<>>

-----------------------------------------------------------------------------
(* The reading operations, called in any order on two documents *)

ReadDecor ==
    {<<<<k1>>, None>>, <<<<k2, j1>>, None>>, <<<<>>, Some(<<"t">>)>>,
     <<<<>>, Some(<<" ", "t", " ">>)>>}

\* pre keeps the documents as they were parsed
InitRead ==
    /\ \E nb \in 1..(MaxReadNodes - 1) :
          \E nu \in 1..(MaxReadNodes - nb) :
              /\ IsParsed(nb, nu, {RootTag}, ReadDecor, FALSE)
              /\ update = nb + 1
    /\ base = 1
    /\ elem = NoNode
    /\ query = PyNone
    /\ op = "init"
    /\ ret = PyNone
    /\ pre = doc
    /\ stack = <<>>

\* mutant: the call strips the text of the element in place
ReadXmlToDict_StripsInPlace ==
    /\ \E n \in {base, update} :
          /\ elem' = n
          /\ ret' = xml_to_dict(Tree(doc, n))
          /\ doc' = [doc EXCEPT ![n].text =
                        IF @ = None THEN None ELSE Some(strip(@[1]))]
    /\ op' = "xml_to_dict"
    /\ query' = PyNone
    /\ UNCHANGED <<base, update, pre, stack>>

\* xml_to_dict assigns to its own result and children dicts only
ReadXmlToDict ==
    /\ \E n \in {base, update} :
          /\ elem' = n
          /\ ret' = xml_to_dict(Tree(doc, n))
    /\ op' = "xml_to_dict"
    /\ query' = PyNone
    /\ UNCHANGED <<doc, base, update, pre, stack>>

\* get_element_path assigns to path_parts and current only
ReadGetElementPath ==
    /\ \E n \in Nodes :
          /\ elem' = n
          /\ ret' = PyStr(get_element_path(doc, n))
    /\ op' = "get_element_path"
    /\ query' = PyNone
    /\ UNCHANGED <<doc, base, update, pre, stack>>

\* find_elements_by_content assigns to results, xpath and match only
ReadFindElementsByContent ==
    /\ \E root \in {base, update}, tag \in {None, Some(<<"a">>)},
          attributes \in {None, Some(<<k1>>)} :
          /\ elem' = root
          /\ query' = [tag |-> tag, text |-> None, attributes |-> attributes]
          /\ ret' = PyList(find_elements_by_content(doc, root, tag, None,
                                                    attributes))
    /\ op' = "find_elements_by_content"
    /\ UNCHANGED <<doc, base, update, pre, stack>>

\* compare_xml_elements assigns to its text and children locals only
ReadCompareXmlElements ==
    /\ elem' = base
    /\ ret' = [kind |-> "bool",
               val |-> compare_xml_elements(Tree(doc, base),
                                            Tree(doc, update))]
    /\ op' = "compare_xml_elements"
    /\ query' = PyNone
    /\ UNCHANGED <<doc, base, update, pre, stack>>

NextRead ==
    \/ ReadXmlToDict
    \/ ReadGetElementPath
    \/ ReadFindElementsByContent
    \/ ReadCompareXmlElements

SpecRead == InitRead /\ [][NextRead]_vars

\* C24: the reading operations leave their input unchanged: after any
\* number of calls of xml_to_dict, get_element_path,
\* find_elements_by_content and compare_xml_elements in any order, every
\* node has the tag, attributes, text, children order and parent it was
\* parsed with, and each call returns what it returns on the documents as
\* parsed.
C24_ReadOnly ==
    /\ doc = pre
    /\ op = "xml_to_dict" => ret = xml_to_dict(Tree(pre, elem))
    /\ op = "get_element_path" => ret = PyStr(get_element_path(pre, elem))
    /\ op = "find_elements_by_content" =>
          ret = PyList(find_elements_by_content(pre, elem, query.tag,
                                                query.text, query.attributes))
    /\ op = "compare_xml_elements" =>
          ret.val = compare_xml_elements(Tree(pre, base), Tree(pre, update))

\* a call on a document whose text has whitespace around it, after other
\* calls
C24_Witness ==
    /\ op = "compare_xml_elements"
    /\ ret.val = TRUE
    /\ doc[base].text = Some(<<" ", "t", " ">>)
    /\ doc[update].text = Some(<<"t">>)
    /\ doc[base].children # <<>>

-----------------------------------------------------------------------------
(* The calls run step by step: one frame of `stack` per active call *)

StepDecor ==
    {<<<<k1>>, None>>, <<<<>>, Some(<<"t">>)>>, <<<<>>, Some(<<"'">>)>>}

\* two parsed documents, at most one node of them with attributes or text
InitSteps ==
    /\ \E nb \in 1..(MaxStepNodes - 1) :
          \E nu \in 1..(MaxStepNodes - nb) :
              /\ \E par \in ParentVecs(nb, nu) :
                    \E tg \in TagVecs(par, {RootTag}) :
                       \E S \in {{}} \cup {{n} : n \in 1..(nb + nu)} :
                          \E dec \in [S -> StepDecor] :
                             doc = MkDoc(par, tg, dec)
              /\ update = nb + 1
    /\ base = 1
    /\ elem = NoNode
    /\ query = PyNone
    /\ op = "init"
    /\ ret = PyNone
    /\ pre = doc
    /\ stack = <<>>

\* the frame of the innermost active call
Top == stack[Len(stack)]

Pop(st) == SubSeq(st, 1, Len(st) - 1)

\* mutant: the loop of the caller does not move on to the next child
Advance_SameChild(st) == Pop(st)

\* a call made from a loop over children returns: its frame goes, and the
\* loop of the caller moves on to the next child
Advance(st) ==
    IF Len(st) = 1 THEN <<>>
    ELSE [Pop(st) EXCEPT ![Len(st) - 1].i = @ + 1]

\* lines 60-74 and 88-98 of xml_to_dict(element), with the children dict as
\* the loop of lines 78-86 left it
XmlToDictResult(h, element, children) ==
    LET attrib == h[element].attrib
        text == h[element].text
        withAttrs ==
            IF attrib # <<>>
            THEN <<<<AttributesKey,
                     PyDict([k \in 1..Len(attrib) |->
                              <<attrib[k][1], PyStr(attrib[k][2])>>])>>>>
            ELSE <<>>
        withText ==
            IF HasText(text)
            THEN SetItem(withAttrs, TextKey, PyStr(strip(text[1])))
            ELSE withAttrs
        result == IF children # <<>> THEN DictUpdate(withText, children)
                  ELSE withText
    IN  IF HasText(text) /\ Len(h[element].children) = 0 /\ attrib = <<>>
        THEN PyStr(strip(text[1]))
        ELSE IF children = <<>> /\ ~HasText(text)
             THEN IF attrib # <<>> THEN PyDict(result) ELSE PyNone
             ELSE PyDict(result)

\* xml_to_dict(element); i counts the children the loop of line 78 has
\* done, children is the dict of that name
CallXmlToDict ==
    /\ op = "init"
    /\ op' = "xml_to_dict"
    /\ elem' = base
    /\ stack' = <<[element |-> base, i |-> 0, children |-> <<>>]>>
    /\ UNCHANGED <<doc, base, update, query, ret, pre>>

\* line 79: the recursive call on the next child
XmlToDictRecurse ==
    /\ op = "xml_to_dict"
    /\ stack # <<>>
    /\ Top.i < Len(doc[Top.element].children)
    /\ stack' = Append(stack,
                       [element |-> doc[Top.element].children[Top.i + 1],
                        i |-> 0, children |-> <<>>])
    /\ UNCHANGED <<doc, base, update, elem, query, op, ret, pre>>

\* lines 72, 94, 96, 98: the loop is over and the call returns; lines
\* 80-86: the caller puts the value in its children dict
XmlToDictReturn ==
    /\ op = "xml_to_dict"
    /\ stack # <<>>
    /\ Top.i = Len(doc[Top.element].children)
    /\ ret' = XmlToDictResult(doc, Top.element, Top.children)
    /\ stack' = IF Len(stack) = 1 THEN <<>>
                ELSE [Advance(stack) EXCEPT
                        ![Len(stack) - 1].children =
                            AddChild(@, doc[Top.element].tag,
                                     XmlToDictResult(doc, Top.element,
                                                     Top.children))]
    /\ UNCHANGED <<doc, base, update, elem, query, op, pre>>

\* dict_to_xml(data, root_tag) on the map xml_to_dict returned; i counts the
\* child entries the loops of lines 126-134 have done
CallDictToXml ==
    /\ op = "xml_to_dict"
    /\ stack = <<>>
    /\ op' = "dict_to_xml"
    /\ query' = ret
    /\ stack' = <<[tag |-> doc[base].tag, value |-> ret, i |-> 0]>>
    /\ UNCHANGED <<doc, base, update, elem, ret, pre>>

\* the child entries build_element still has to build for the frame
BuildTodo(frame) ==
    IF frame.value.kind = "dict" THEN ChildEntries(frame.value.val) ELSE <<>>

\* lines 130, 133: the recursive call of build_element
BuildElementRecurse ==
    /\ op = "dict_to_xml"
    /\ stack # <<>>
    /\ Top.i < Len(BuildTodo(Top))
    /\ stack' = Append(stack,
                       [tag |-> BuildTodo(Top)[Top.i + 1][1],
                        value |-> BuildTodo(Top)[Top.i + 1][2],
                        i |-> 0])
    /\ UNCHANGED <<doc, base, update, elem, query, op, ret, pre>>

\* line 144
BuildElementReturn ==
    /\ op = "dict_to_xml"
    /\ stack # <<>>
    /\ Top.i = Len(BuildTodo(Top))
    /\ ret' = build_element(Top.tag, Top.value)
    /\ stack' = Advance(stack)
    /\ UNCHANGED <<doc, base, update, elem, query, op, pre>>

\* lines 180-184 of merge_xml_elements(b, u): the attributes and the text
\* of b are written
MergeEnter(h, b, u) ==
    LET h1 == [h EXCEPT ![b].attrib = DictUpdate(@, h[u].attrib)]
    IN  IF HasText(h[u].text) THEN [h1 EXCEPT ![b].text = h[u].text] ELSE h1

\* lines 187-189: base_children is taken and the loop over update starts
MergeFrame(h, b, u) ==
    [b |-> b, u |-> u, todo |-> h[u].children,
     base_children |-> BaseChildren(h, b)]

CallMerge ==
    /\ op = "init"
    /\ op' = "merge_xml_elements"
    /\ elem' = base
    /\ doc' = MergeEnter(doc, base, update)
    /\ stack' = <<MergeFrame(MergeEnter(doc, base, update), base, update)>>
    /\ UNCHANGED <<base, update, query, ret, pre>>

\* lines 190-195: the recursive call on the base child of the same tag
MergeRecurse ==
    /\ op = "merge_xml_elements"
    /\ stack # <<>>
    /\ Top.todo # <<>>
    /\ doc[Head(Top.todo)].tag \in DOMAIN Top.base_children
    /\ LET update_child == Head(Top.todo)
           base_child == Top.base_children[doc[update_child].tag]
           h == MergeEnter(doc, base_child, update_child)
       IN  /\ doc' = h
           /\ stack' = Append([stack EXCEPT ![Len(stack)].todo = Tail(@)],
                              MergeFrame(h, base_child, update_child))
    /\ UNCHANGED <<base, update, elem, query, op, ret, pre>>

\* lines 196-198
MergeAppend ==
    /\ op = "merge_xml_elements"
    /\ stack # <<>>
    /\ Top.todo # <<>>
    /\ doc[Head(Top.todo)].tag \notin DOMAIN Top.base_children
    /\ doc' = AppendChild(doc, Top.b, Head(Top.todo))
    /\ stack' = [stack EXCEPT ![Len(stack)].todo = Tail(@)]
    /\ UNCHANGED <<base, update, elem, query, op, ret, pre>>

\* line 200
MergeReturn ==
    /\ op = "merge_xml_elements"
    /\ stack # <<>>
    /\ Top.todo = <<>>
    /\ ret' = [kind |-> "element", val |-> Top.b]
    /\ stack' = Pop(stack)
    /\ UNCHANGED <<doc, base, update, elem, query, op, pre>>

\* get_element_path(element); steps counts the assignments of line 290
CallGetElementPath ==
    /\ op = "init"
    /\ op' = "get_element_path"
    /\ \E n \in Nodes :
          /\ elem' = n
          /\ stack' = <<[current |-> n, steps |-> 0]>>
    /\ UNCHANGED <<doc, base, update, query, ret, pre>>

\* lines 276-290: one turn of the loop
GetElementPathUp ==
    /\ op = "get_element_path"
    /\ stack # <<>>
    /\ Top.current # NoNode
    /\ stack' = <<[current |-> doc[Top.current].parent,
                   steps |-> Top.steps + 1]>>
    /\ UNCHANGED <<doc, base, update, elem, query, op, ret, pre>>

\* lines 292-293
GetElementPathReturn ==
    /\ op = "get_element_path"
    /\ stack # <<>>
    /\ Top.current = NoNode
    /\ ret' = PyStr(get_element_path(doc, elem))
    /\ stack' = <<>>
    /\ UNCHANGED <<doc, base, update, elem, query, op, pre>>

\* find_elements_by_content(root, tag, text): root.xpath() answers in one
\* step, or raises and leaves the loop of line 242 to do
CallFind ==
    /\ op = "init"
    /\ op' = "find_elements_by_content"
    /\ elem' = base
    /\ \E tag \in {None, Some(<<"a">>)}, text \in {None, Some(<<"'">>)} :
          /\ query' = [tag |-> tag, text |-> text, attributes |-> None]
          /\ stack' =
               <<IF XPathRaises(tag, text, None)
                 THEN [todo |-> Iter(doc, base), results |-> <<>>]
                 ELSE [todo |-> <<>>,
                       results |-> XPathSelect(doc, base,
                                      ParseXPath(BuildXPath(tag, text,
                                                            None)))]>>
    /\ UNCHANGED <<doc, base, update, ret, pre>>

\* lines 242-258: one turn of the loop of the except branch
FindLoop ==
    /\ op = "find_elements_by_content"
    /\ stack # <<>>
    /\ Top.todo # <<>>
    /\ LET e == Head(Top.todo)
           all == Fallback(doc, elem, query.tag, query.text,
                           query.attributes)
           match == \E k \in 1..Len(all) : all[k] = e
       IN  stack' = <<[todo |-> Tail(Top.todo),
                       results |-> IF match THEN Append(Top.results, e)
                                   ELSE Top.results]>>
    /\ UNCHANGED <<doc, base, update, elem, query, op, ret, pre>>

\* line 260
FindReturn ==
    /\ op = "find_elements_by_content"
    /\ stack # <<>>
    /\ Top.todo = <<>>
    /\ ret' = PyList(Top.results)
    /\ stack' = <<>>
    /\ UNCHANGED <<doc, base, update, elem, query, op, pre>>

\* compare_xml_elements(elem1, elem2); i counts the pairs of children the
\* loop of line 347 has done
CallCompare ==
    /\ op = "init"
    /\ op' = "compare_xml_elements"
    /\ elem' = base
    /\ stack' = <<[elem1 |-> base, elem2 |-> update, i |-> 0]>>
    /\ UNCHANGED <<doc, base, update, query, ret, pre>>

\* lines 327-345: one of the four early returns is taken
Differ(h, elem1, elem2) ==
    \/ h[elem1].tag # h[elem2].tag
    \/ TextOrEmpty(h[elem1].text) # TextOrEmpty(h[elem2].text)
    \/ AsDict(h[elem1].attrib) # AsDict(h[elem2].attrib)
    \/ Len(h[elem1].children) # Len(h[elem2].children)

\* line 349: the call on the last pair returned False
ChildDiffered(frame) == frame.i > 0 /\ ~ret.val

\* line 348: the recursive call on the next pair of children
CompareRecurse ==
    /\ op = "compare_xml_elements"
    /\ stack # <<>>
    /\ ~Differ(doc, Top.elem1, Top.elem2)
    /\ ~ChildDiffered(Top)
    /\ Top.i < Len(doc[Top.elem1].children)
    /\ stack' = Append(stack,
                       [elem1 |-> doc[Top.elem1].children[Top.i + 1],
                        elem2 |-> doc[Top.elem2].children[Top.i + 1],
                        i |-> 0])
    /\ UNCHANGED <<doc, base, update, elem, query, op, ret, pre>>

\* lines 328, 334, 338, 345, 349, 351
CompareReturn ==
    /\ op = "compare_xml_elements"
    /\ stack # <<>>
    /\ \/ Differ(doc, Top.elem1, Top.elem2)
       \/ ChildDiffered(Top)
       \/ Top.i = Len(doc[Top.elem1].children)
    /\ ret' = [kind |-> "bool",
               val |-> ~Differ(doc, Top.elem1, Top.elem2)
                          /\ ~ChildDiffered(Top)]
    /\ stack' = Advance(stack)
    /\ UNCHANGED <<doc, base, update, elem, query, op, pre>>

\* the statements of the running call
Step ==
    \/ XmlToDictRecurse
    \/ XmlToDictReturn
    \/ BuildElementRecurse
    \/ BuildElementReturn
    \/ MergeRecurse
    \/ MergeAppend
    \/ MergeReturn
    \/ GetElementPathUp
    \/ GetElementPathReturn
    \/ FindLoop
    \/ FindReturn
    \/ CompareRecurse
    \/ CompareReturn

Call ==
    \/ CallXmlToDict
    \/ CallDictToXml
    \/ CallMerge
    \/ CallGetElementPath
    \/ CallFind
    \/ CallCompare

NextSteps == Call \/ Step

SpecSteps == InitSteps /\ [][NextSteps]_vars

\* the interpreter runs the next statement of a call that has not returned
SpecStepsFair == SpecSteps /\ WF_vars(Step)

MaxOf(S) == IF S = {} THEN 0 ELSE CHOOSE x \in S : \A y \in S : y <= x

\* the number of levels of the tree under n
RECURSIVE Depth(_, _)
Depth(h, n) ==
    1 + MaxOf({Depth(h, h[n].children[k]) : k \in 1..Len(h[n].children)})

\* the number of levels of a map value: a mapping is one level above its
\* child entries
RECURSIVE ValueDepth(_)
ValueDepth(v) ==
    IF v.kind = "dict"
    THEN 1 + MaxOf({ValueDepth(ChildEntries(v.val)[k][2]) :
                       k \in 1..Len(ChildEntries(v.val))})
    ELSE 1

RECURSIVE TreeRoot(_, _)
TreeRoot(h, n) == IF h[n].parent = NoNode THEN n ELSE TreeRoot(h, h[n].parent)

\* the depth of the input of the running call, as it was passed
InputDepth ==
    CASE op = "xml_to_dict" -> Depth(pre, base)
      [] op = "dict_to_xml" -> ValueDepth(query)
      [] op = "merge_xml_elements" -> Depth(pre, update)
      [] op = "get_element_path" -> Depth(pre, TreeRoot(pre, elem))
      [] op = "find_elements_by_content" -> Depth(pre, base)
      [] op = "compare_xml_elements" ->
            IF Depth(pre, base) < Depth(pre, update)
            THEN Depth(pre, base) ELSE Depth(pre, update)
      [] OTHER -> 0

NestingBounded ==
    /\ Len(stack) <= InputDepth
    /\ op = "get_element_path" /\ stack # <<>> => Top.steps <= InputDepth

\* a call run step by step returns what the function returns
StepsAgree ==
    stack = <<>> =>
        /\ op = "xml_to_dict" => ret = xml_to_dict(Tree(pre, base))
        /\ op = "dict_to_xml" => ret = dict_to_xml(query, pre[base].tag)
        /\ op = "merge_xml_elements" =>
              ret.val = base /\ doc = merge_xml_elements(pre, base, update)
        /\ op = "get_element_path" => ret = PyStr(get_element_path(pre, elem))
        /\ op = "find_elements_by_content" =>
              ret = PyList(find_elements_by_content(pre, base, query.tag,
                                                    query.text,
                                                    query.attributes))
        /\ op = "compare_xml_elements" =>
              ret.val = compare_xml_elements(Tree(pre, base),
                                             Tree(pre, update))

\* C27: each of xml_to_dict, dict_to_xml, merge_xml_elements,
\* get_element_path, find_elements_by_content and compare_xml_elements
\* returns, and while it runs the number of its active calls (for
\* get_element_path, the number of steps to a parent) never exceeds the
\* number of levels of the tree or map value it was passed.
C27_TerminatesWithinDepth ==
    /\ []NestingBounded
    /\ (stack # <<>>) ~> (stack = <<>>)

\* three calls of xml_to_dict are active on a document of three levels
C27_Witness ==
    /\ op = "xml_to_dict"
    /\ Len(stack) = 3
    /\ Depth(pre, base) = 3

=============================================================================
